---- MODULE Spec2Model ----
(***************************************************************************)
(* otterdog: BranchProtectionRule (models/branch_protection_rule.py).      *)
(*                                                                         *)
(* The cross-field validator (validate), the two projections that build an *)
(* instance (from_model, from_provider with transform_app) and the         *)
(* projection that builds the wire payload (_to_provider).                 *)
(*                                                                         *)
(* Strings that the code inspects (status-check tokens, app slugs,         *)
(* contexts) are sequences of one-character strings, so that splitting on  *)
(* the first ':' and concatenation are computed, not assumed.              *)
(***************************************************************************)
EXTENDS Integers, Sequences, FiniteSets, TLC

VARIABLES
    op,         \* the operation in progress
    pc,         \* its position: "start", intermediate labels, "done", "raised"
    self,       \* validate: the instance being validated
    findings,   \* validate: the failures added to the ValidationContext
    data,       \* from_model / from_provider / _to_provider: the input dict
    result,     \* from_model / from_provider: the instance; _to_provider: the payload
    error,      \* the exception raised, "" when none
    mapping,        \* _to_provider: the jsonbender mapping under construction
    app_slugs,      \* _to_provider: the set collected by the first loop
    app_ids,        \* _to_provider: what get_app_ids returned
    transformed_checks, \* _to_provider: the list built by the second loop
    idx,            \* _to_provider: position of the running loop
    provider,   \* _to_provider: the provider argument, "github" or "none"
    calls,      \* the resolver calls made so far, in order
    origin      \* round trips: what the first half started from

vars == <<op, pc, self, findings, data, result, error, mapping, app_slugs,
          app_ids, transformed_checks, idx, provider, calls, origin>>

----------------------------------------------------------------------------
(* Bounds of the model *)

\* requiredApprovingReviewCount ranges over -1 .. MaxCount
MaxCount == 2
\* actor / status-check lists of a validated instance have at most MaxRefs entries
MaxRefs == 1
\* actor-reference lists given to _to_provider have at most MaxActors entries
MaxActors == 1
\* status-check lists given to _to_provider have at most MaxChecks tokens
MaxChecks == 2
\* a status-check token drawn character by character has at most MaxTokenLen characters
MaxTokenLen == 5
\* an app slug of a provider status check has at most MaxSlugLen characters
MaxSlugLen == 3
\* the context of a provider status check has at most MaxCtxLen characters
MaxCtxLen == 3
\* a record handed to from_model / from_provider lacks at most MaxMissing keys
MaxMissing == 1

----------------------------------------------------------------------------
(* otterdog.utils: the UNSET sentinel and the three states of a field *)

UNSET == [tag |-> "unset"]
None == [tag |-> "none"]
Val(v) == [tag |-> "val", v |-> v]

is_unset(value) == value.tag = "unset"

is_set_and_valid(value) == ~is_unset(value) /\ value.tag # "none"

\* Python's `x is True` / `x is False`
IsTrue(x) == x.tag = "val" /\ x.v = TRUE
IsFalse(x) == x.tag = "val" /\ x.v = FALSE

----------------------------------------------------------------------------
(* validate *)

FailureERROR == "ERROR"

\* context.add_failure(FailureType.ERROR, f"... has '<a>' <state> but '<b>' <cond>")
Failure(a, b) == [type |-> FailureERROR, fieldA |-> a, fieldB |-> b]

CheckApprovingReviews_unguarded(r) ==
    LET requiresApprovingReviews == IsTrue(r.requiresApprovingReviews)
        requiredApprovingReviewCount == r.requiredApprovingReviewCount
    IN  IF requiresApprovingReviews
        THEN IF requiredApprovingReviewCount.tag # "val"
                \/ requiredApprovingReviewCount.v < 0
             THEN << Failure("requiredApprovingReviews", "requiredApprovingReviewCount") >>
             ELSE << >>
        ELSE << >>

CheckApprovingReviews(r) ==
    LET requiresApprovingReviews == IsTrue(r.requiresApprovingReviews)
        requiredApprovingReviewCount == r.requiredApprovingReviewCount
    IN  IF requiresApprovingReviews /\ ~is_unset(requiredApprovingReviewCount)
        THEN IF requiredApprovingReviewCount.tag = "none"
                \/ requiredApprovingReviewCount.v < 0
             THEN << Failure("requiredApprovingReviews", "requiredApprovingReviewCount") >>
             ELSE << >>
        ELSE << >>

CheckReviewDismissals_any_length(r) ==
    LET permitsReviewDismissals == IsFalse(r.restrictsReviewDismissals)
        reviewDismissalAllowances == r.reviewDismissalAllowances
    IN  IF permitsReviewDismissals
           /\ is_set_and_valid(reviewDismissalAllowances)
           /\ Len(reviewDismissalAllowances.v) >= 0
        THEN << Failure("restrictsReviewDismissals", "reviewDismissalAllowances") >>
        ELSE << >>

CheckReviewDismissals(r) ==
    LET permitsReviewDismissals == IsFalse(r.restrictsReviewDismissals)
        reviewDismissalAllowances == r.reviewDismissalAllowances
    IN  IF permitsReviewDismissals
           /\ is_set_and_valid(reviewDismissalAllowances)
           /\ Len(reviewDismissalAllowances.v) > 0
        THEN << Failure("restrictsReviewDismissals", "reviewDismissalAllowances") >>
        ELSE << >>

CheckForcePushes(r) ==
    LET allowsForcePushes == IsTrue(r.allowsForcePushes)
        bypassForcePushAllowances == r.bypassForcePushAllowances
    IN  IF allowsForcePushes
           /\ is_set_and_valid(bypassForcePushAllowances)
           /\ Len(bypassForcePushAllowances.v) > 0
        THEN << Failure("allowsForcePushes", "bypassForcePushAllowances") >>
        ELSE << >>

CheckStatusChecks_unguarded(r) ==
    LET ignoresStatusChecks == IsFalse(r.requiresStatusChecks)
        requiredStatusChecks == r.requiredStatusChecks
    IN  IF ignoresStatusChecks
           /\ (~is_set_and_valid(requiredStatusChecks)
               \/ Len(requiredStatusChecks.v) > 0)
        THEN << Failure("requiresStatusChecks", "requiredStatusChecks") >>
        ELSE << >>

CheckStatusChecks(r) ==
    LET ignoresStatusChecks == IsFalse(r.requiresStatusChecks)
        requiredStatusChecks == r.requiredStatusChecks
    IN  IF ignoresStatusChecks
           /\ is_set_and_valid(requiredStatusChecks)
           /\ Len(requiredStatusChecks.v) > 0
        THEN << Failure("requiresStatusChecks", "requiredStatusChecks") >>
        ELSE << >>

\* a validator that returns after its first finding
validate_first_only(r) ==
    LET all == CheckApprovingReviews(r) \o CheckReviewDismissals(r)
               \o CheckForcePushes(r) \o CheckStatusChecks(r)
    IN  IF all = << >> THEN all ELSE << Head(all) >>

\* the failures one call adds, in the order of the four if-statements
validate(r) ==
    CheckApprovingReviews(r) \o CheckReviewDismissals(r)
    \o CheckForcePushes(r) \o CheckStatusChecks(r)

----------------------------------------------------------------------------
(* The instances validate is run on *)

Toggles == {UNSET, None, Val(TRUE), Val(FALSE)}

Counts == {UNSET, None} \cup {Val(n) : n \in (-1)..MaxCount}

RECURSIVE SeqsUpTo(_, _)
\* all sequences over elems of length at most n
SeqsUpTo(elems, n) ==
    IF n = 0 THEN {<< >>}
    ELSE LET shorter == SeqsUpTo(elems, n - 1)
         IN  shorter \cup {Append(q, x) : q \in shorter, x \in elems}

ActorNames == {"alice"}

CheckNames == {<<"c", "t", "x">>}

ActorLists == {UNSET, None} \cup {Val(l) : l \in SeqsUpTo(ActorNames, MaxRefs)}

CheckLists == {UNSET, None} \cup {Val(l) : l \in SeqsUpTo(CheckNames, MaxRefs)}

Rules ==
    [requiresApprovingReviews : Toggles,
     requiredApprovingReviewCount : Counts,
     restrictsReviewDismissals : Toggles,
     reviewDismissalAllowances : ActorLists,
     allowsForcePushes : Toggles,
     bypassForcePushAllowances : ActorLists,
     requiresStatusChecks : Toggles,
     requiredStatusChecks : CheckLists]

Idle ==
    /\ data = << >>
    /\ result = << >>
    /\ error = ""
    /\ mapping = << >>
    /\ app_slugs = {}
    /\ app_ids = << >>
    /\ transformed_checks = << >>
    /\ idx = 0
    /\ provider = "none"
    /\ calls = << >>
    /\ origin = [kind |-> "none"]

InitValidate ==
    /\ op = "validate"
    /\ pc = "start"
    /\ self \in Rules
    /\ findings = << >>
    /\ Idle

\* one call of validate(context, parent_object) on a fresh context
Validate ==
    /\ op = "validate"
    /\ pc = "start"
    /\ findings' = findings \o validate(self)
    /\ pc' = "done"
    /\ UNCHANGED <<op, self, data, result, error, mapping, app_slugs, app_ids,
                   transformed_checks, idx, provider, calls, origin>>

NextValidate == Validate

SpecValidate == InitValidate /\ [][NextValidate]_vars

----------------------------------------------------------------------------
(* Strings as sequences of characters *)

ANY == <<"a", "n", "y">>

GITHUB_ACTIONS == <<"g", "i", "t", "h", "u", "b", "-", "a", "c", "t", "i", "o", "n", "s">>

\* Python's `":" in check`
HasColon(str) == \E i \in 1..Len(str) : str[i] = ":"

FirstColon(str) ==
    CHOOSE i \in 1..Len(str) : str[i] = ":" /\ \A j \in 1..(i - 1) : str[j] # ":"

SplitAt(str, i) == << SubSeq(str, 1, i - 1), SubSeq(str, i + 1, Len(str)) >>

\* re.split(":", check, 1) of a string that contains ':': <<app_slug, context>>
Split1(str) == SplitAt(str, FirstColon(str))

----------------------------------------------------------------------------
(* The declared fields and the jsonbender expressions *)

all_fields ==
    {"id", "pattern", "allowsDeletions", "allowsForcePushes", "dismissesStaleReviews",
     "isAdminEnforced", "lockAllowsFetchAndMerge", "lockBranch",
     "bypassForcePushAllowances", "bypassPullRequestAllowances", "pushRestrictions",
     "requireLastPushApproval", "requiredApprovingReviewCount",
     "requiresApprovingReviews", "requiresCodeOwnerReviews", "requiresCommitSignatures",
     "requiresConversationResolution", "requiresLinearHistory", "requiresStatusChecks",
     "requiresStrictStatusChecks", "restrictsReviewDismissals",
     "reviewDismissalAllowances", "requiredStatusChecks"}

\* metadata={"external_only": True}
external_only == {"id"}

\* the fields written to the provider: the declared fields that are not external-only
provider_fields == all_fields \ external_only

S(k) == [kind |-> "S", key |-> k]

OptionalS(k, default) == [kind |-> "OptionalS", key |-> k, default |-> default]

K(value) == [kind |-> "K", value |-> value]

\* S(k) >> Forall(f), f being transform_app
SForall(k) == [kind |-> "SForall", key |-> k]

\* the decoded token always carries its app prefix
transform_app_no_elision(x) ==
    LET app == x.app
        context == x.context
        app_prefix == IF app.tag = "none" THEN ANY \o <<":">>
                      ELSE app.v.slug \o <<":">>
    IN  app_prefix \o context

transform_app(x) ==
    LET app == x.app
        context == x.context
        app_prefix == IF app.tag = "none" THEN ANY \o <<":">>
                      ELSE LET app_slug == app.v.slug
                           IN  IF app_slug = GITHUB_ACTIONS THEN << >>
                               ELSE app_slug \o <<":">>
    IN  app_prefix \o context

\* whether bend(m, d) finds every key it must read
Bendable(m, d) ==
    \A k \in DOMAIN m : m[k].kind \in {"S", "SForall"} => m[k].key \in DOMAIN d

BendOne(e, d) ==
    CASE e.kind = "S" -> d[e.key]
      [] e.kind = "OptionalS" -> IF e.key \in DOMAIN d THEN d[e.key] ELSE e.default
      [] e.kind = "K" -> e.value
      [] e.kind = "SForall" ->
            Val([i \in 1..Len(d[e.key].v) |-> transform_app(d[e.key].v[i])])

bend(m, d) == [k \in DOMAIN m |-> BendOne(m[k], d)]

----------------------------------------------------------------------------
(* from_model and from_provider *)

from_model_mapping_none ==
    [k \in all_fields |-> OptionalS(k, None)]

from_model_mapping ==
    [k \in all_fields |-> OptionalS(k, UNSET)]

from_provider_mapping ==
    [k \in all_fields |-> IF k = "requiredStatusChecks" THEN SForall(k) ELSE S(k)]

NoLocals ==
    /\ mapping' = << >>
    /\ app_slugs' = {}
    /\ app_ids' = << >>
    /\ transformed_checks' = << >>
    /\ idx' = 0

FromModel ==
    /\ op = "from_model" /\ pc = "start" /\ error = ""
    /\ result' = bend(from_model_mapping, data)
    /\ pc' = "done"
    /\ UNCHANGED <<op, self, findings, data, error, mapping, app_slugs, app_ids,
                   transformed_checks, idx, provider, calls, origin>>

FromProvider ==
    /\ op = "from_provider" /\ pc = "start" /\ error = ""
    /\ IF Bendable(from_provider_mapping, data)
       THEN /\ result' = bend(from_provider_mapping, data)
            /\ pc' = "done"
            /\ error' = error
       ELSE /\ error' = "MissingFieldError"
            /\ UNCHANGED <<result, pc>>
    /\ UNCHANGED <<op, self, findings, data, mapping, app_slugs, app_ids,
                   transformed_checks, idx, provider, calls, origin>>

----------------------------------------------------------------------------
(* The Identifier Resolver (provider.get_actor_ids, provider.get_app_ids) *)

UnknownActor == "ghost"

ActorId(ref) == <<"actor-id", ref>>

KnownActors(refs) == \A i \in 1..Len(refs) : refs[i] # UnknownActor

get_actor_ids(refs) == [i \in 1..Len(refs) |-> ActorId(refs[i])]

UnknownSlug == <<"y">>

KnownApp(slug) == slug # << >> /\ slug # UnknownSlug

AppId(slug) == <<"#">> \o slug

get_app_ids(slugs) == [slug \in slugs |-> AppId(slug)]

----------------------------------------------------------------------------
(* _to_provider *)

Pop(m, k) == [x \in DOMAIN m \ {k} |-> m[x]]

Put(m, k, e) == [x \in DOMAIN m \cup {k} |-> IF x = k THEN e ELSE m[x]]

InitialMapping(d) ==
    [f \in {g \in provider_fields : g \in DOMAIN d /\ ~is_unset(d[g])} |-> S(f)]

PushRestrictionsMapping_always_restricts(m, actor_ids) ==
    Put(Put(Pop(m, "pushRestrictions"), "pushActorIds", K(Val(actor_ids))),
        "restrictsPushes", K(Val(TRUE)))

PushRestrictionsMapping(m, actor_ids) ==
    Put(Put(Pop(m, "pushRestrictions"), "pushActorIds", K(Val(actor_ids))),
        "restrictsPushes", K(Val(Len(actor_ids) > 0)))

ActorMapping(m, f, idKey, actor_ids) ==
    Put(Pop(m, f), idKey, K(Val(actor_ids)))

ActorCall(refs) == [fn |-> "get_actor_ids", refs |-> refs]

AppCall(slugs) == [fn |-> "get_app_ids", slugs |-> slugs]

\* the block `if "<f>" in data: ...` of one actor-reference field
ActorStep(f, idKey, next) ==
    /\ op = "to_provider" /\ pc = f /\ error = ""
    /\ IF f \notin DOMAIN data
       THEN /\ pc' = next
            /\ UNCHANGED <<mapping, calls, error>>
       ELSE IF f \notin DOMAIN mapping
       THEN /\ error' = "KeyError"
            /\ UNCHANGED <<pc, mapping, calls>>
       ELSE IF ~is_set_and_valid(data[f])
       THEN /\ mapping' = Pop(mapping, f)
            /\ pc' = next
            /\ UNCHANGED <<calls, error>>
       ELSE IF provider = "none"
       THEN /\ mapping' = Pop(mapping, f)
            /\ error' = "AssertionError"
            /\ UNCHANGED <<pc, calls>>
       ELSE IF ~KnownActors(data[f].v)
       THEN /\ mapping' = Pop(mapping, f)
            /\ calls' = Append(calls, ActorCall(data[f].v))
            /\ error' = "UnknownActorError"
            /\ pc' = pc
       ELSE /\ calls' = Append(calls, ActorCall(data[f].v))
            /\ mapping' = IF f = "pushRestrictions"
                          THEN PushRestrictionsMapping(mapping, get_actor_ids(data[f].v))
                          ELSE ActorMapping(mapping, f, idKey, get_actor_ids(data[f].v))
            /\ pc' = next
            /\ error' = error
    /\ UNCHANGED <<op, self, findings, data, result, app_slugs, app_ids,
                   transformed_checks, idx, provider, origin>>

ToProviderStart ==
    /\ op = "to_provider" /\ pc = "start" /\ error = ""
    /\ mapping' = InitialMapping(data)
    /\ pc' = "pushRestrictions"
    /\ UNCHANGED <<op, self, findings, data, result, error, app_slugs, app_ids,
                   transformed_checks, idx, provider, calls, origin>>

PushRestrictions ==
    ActorStep("pushRestrictions", "pushActorIds", "reviewDismissalAllowances")

ReviewDismissalAllowances ==
    ActorStep("reviewDismissalAllowances", "reviewDismissalActorIds",
              "bypassPullRequestAllowances")

BypassPullRequestAllowances ==
    ActorStep("bypassPullRequestAllowances", "bypassPullRequestActorIds",
              "bypassForcePushAllowances")

BypassForcePushAllowances ==
    ActorStep("bypassForcePushAllowances", "bypassForcePushActorIds",
              "requiredStatusChecks")

\* `if "requiredStatusChecks" in data:` up to `app_slugs = set()`
RequiredStatusChecks ==
    /\ op = "to_provider" /\ pc = "requiredStatusChecks" /\ error = ""
    /\ IF "requiredStatusChecks" \notin DOMAIN data
       THEN /\ pc' = "bend"
            /\ UNCHANGED <<mapping, error, app_slugs, idx>>
       ELSE IF "requiredStatusChecks" \notin DOMAIN mapping
       THEN /\ error' = "KeyError"
            /\ UNCHANGED <<pc, mapping, app_slugs, idx>>
       ELSE IF ~is_set_and_valid(data["requiredStatusChecks"])
       THEN /\ mapping' = Pop(mapping, "requiredStatusChecks")
            /\ pc' = "bend"
            /\ UNCHANGED <<error, app_slugs, idx>>
       ELSE IF provider = "none"
       THEN /\ mapping' = Pop(mapping, "requiredStatusChecks")
            /\ error' = "AssertionError"
            /\ UNCHANGED <<pc, app_slugs, idx>>
       ELSE /\ mapping' = Pop(mapping, "requiredStatusChecks")
            /\ app_slugs' = {}
            /\ idx' = 1
            /\ pc' = "collect"
            /\ error' = error
    /\ UNCHANGED <<op, self, findings, data, result, app_ids, transformed_checks,
                   provider, calls, origin>>

required_status_checks == data["requiredStatusChecks"].v

CollectSlug_with_any(slugs, check) ==
    IF HasColon(check)
    THEN slugs \cup {Split1(check)[1]}
    ELSE slugs \cup {GITHUB_ACTIONS}

\* the body of the first loop over required_status_checks
CollectSlug(slugs, check) ==
    IF HasColon(check)
    THEN LET app_slug == Split1(check)[1]
         IN  IF app_slug # ANY THEN slugs \cup {app_slug} ELSE slugs
    ELSE slugs \cup {GITHUB_ACTIONS}

Collect ==
    /\ op = "to_provider" /\ pc = "collect" /\ error = ""
    /\ idx <= Len(required_status_checks)
    /\ app_slugs' = CollectSlug(app_slugs, required_status_checks[idx])
    /\ idx' = idx + 1
    /\ UNCHANGED <<op, pc, self, findings, data, result, error, mapping, app_ids,
                   transformed_checks, provider, calls, origin>>

\* app_ids = provider.get_app_ids(app_slugs); transformed_checks = []
Resolve ==
    /\ op = "to_provider" /\ pc = "collect" /\ error = ""
    /\ idx > Len(required_status_checks)
    /\ calls' = Append(calls, AppCall(app_slugs))
    /\ IF \A slug \in app_slugs : KnownApp(slug)
       THEN /\ app_ids' = get_app_ids(app_slugs)
            /\ transformed_checks' = << >>
            /\ idx' = 1
            /\ pc' = "transform"
            /\ error' = error
       ELSE /\ error' = "UnknownAppError"
            /\ UNCHANGED <<app_ids, transformed_checks, idx, pc>>
    /\ UNCHANGED <<op, self, findings, data, result, mapping, app_slugs, provider,
                   origin>>

\* the body of the second loop over required_status_checks
TransformCheck(check, ids) ==
    LET parts == IF HasColon(check) THEN Split1(check) ELSE <<GITHUB_ACTIONS, check>>
        app_slug == parts[1]
        context == parts[2]
    IN  IF app_slug = ANY
        THEN [appId |-> ANY, context |-> context]
        ELSE [appId |-> ids[app_slug], context |-> context]

Transform ==
    /\ op = "to_provider" /\ pc = "transform" /\ error = ""
    /\ idx <= Len(required_status_checks)
    /\ transformed_checks' =
          Append(transformed_checks, TransformCheck(required_status_checks[idx], app_ids))
    /\ idx' = idx + 1
    /\ UNCHANGED <<op, pc, self, findings, data, result, error, mapping, app_slugs,
                   app_ids, provider, calls, origin>>

\* mapping["requiredStatusChecks"] = K(transformed_checks)
StatusChecksDone ==
    /\ op = "to_provider" /\ pc = "transform" /\ error = ""
    /\ idx > Len(required_status_checks)
    /\ mapping' = Put(mapping, "requiredStatusChecks", K(Val(transformed_checks)))
    /\ pc' = "bend"
    /\ UNCHANGED <<op, self, findings, data, result, error, app_slugs, app_ids,
                   transformed_checks, idx, provider, calls, origin>>

\* return bend(mapping, data)
ToProviderReturn ==
    /\ op = "to_provider" /\ pc = "bend" /\ error = ""
    /\ result' = bend(mapping, data)
    /\ pc' = "done"
    /\ UNCHANGED <<op, self, findings, data, error, mapping, app_slugs, app_ids,
                   transformed_checks, idx, provider, calls, origin>>


----------------------------------------------------------------------------
(* Round trips through the provider *)

\* the live state the provider reports for a rule, apart from its status checks
LiveSample ==
    [f \in all_fields |->
        CASE f = "id" -> Val("BPR_1")
          [] f = "pattern" -> Val("main")
          [] f = "requiredApprovingReviewCount" -> Val(1)
          [] f = "pushRestrictions" -> Val(<<"team-a">>)
          [] f \in {"bypassForcePushAllowances", "bypassPullRequestAllowances",
                    "reviewDismissalAllowances"} -> Val(<< >>)
          [] f = "requiredStatusChecks" ->
                Val(<< [app |-> None, context |-> <<"a">>],
                       [app |-> Val([slug |-> GITHUB_ACTIONS]), context |-> <<"n">>] >>)
          [] OTHER -> Val(TRUE)]

\* the app the provider reports for a status check written with appId
AppOfId(appId) == IF appId = ANY THEN None ELSE Val([slug |-> Tail(appId)])

ProviderCheck(e) == [app |-> AppOfId(e.appId), context |-> e.context]

\* the provider stores the payload's status checks and reports them back
Refetch ==
    /\ op = "to_provider" /\ pc = "done" /\ error = ""
    /\ origin.kind = "tokens"
    /\ "requiredStatusChecks" \in DOMAIN result
    /\ LET written == result["requiredStatusChecks"].v
       IN  data' = [LiveSample EXCEPT !["requiredStatusChecks"] =
                       Val([i \in 1..Len(written) |-> ProviderCheck(written[i])])]
    /\ op' = "from_provider"
    /\ pc' = "start"
    /\ result' = << >>
    /\ NoLocals
    /\ UNCHANGED <<self, findings, error, provider, calls, origin>>

\* to_provider(provider): the instance's fields, external-only ones left out
to_model_dict(instance) == [f \in DOMAIN instance \ external_only |-> instance[f]]

\* the instance read from the provider is written back
Reapply ==
    /\ op = "from_provider" /\ pc = "done" /\ error = ""
    /\ origin.kind = "checks"
    /\ data' = to_model_dict(result)
    /\ op' = "to_provider"
    /\ pc' = "start"
    /\ result' = << >>
    /\ provider' = "github"
    /\ NoLocals
    /\ UNCHANGED <<self, findings, error, calls, origin>>

----------------------------------------------------------------------------
(* The inputs *)

ABSENT == [tag |-> "absent"]

\* the dict that holds the keys of choice whose value is not ABSENT
MkDict(choice) ==
    [f \in {g \in DOMAIN choice : choice[g].tag # "absent"} |-> choice[f]]

RECURSIVE SubsetsUpTo(_, _)
\* the subsets of elems with at most n elements
SubsetsUpTo(elems, n) ==
    IF n = 0 THEN {{}}
    ELSE LET smaller == SubsetsUpTo(elems, n - 1)
         IN  smaller \cup {m \cup {x} : m \in smaller, x \in elems}

Without(d, missing) == [f \in DOMAIN d \ missing |-> d[f]]

Alphabet == {"a", "n", "y", ":"}

SlugAlphabet == {"a", "n", "y"}

ActorRefs == {"team-a", UnknownActor}

ActorValues ==
    {ABSENT, UNSET, None} \cup {Val(l) : l \in SeqsUpTo(ActorRefs, MaxActors)}

SampleTokens ==
    {<<"a">>, ANY \o <<":", "a">>, <<"n", ":", "a">>, <<"a", ":", "a">>,
     GITHUB_ACTIONS \o <<":", "a">>, UnknownSlug \o <<":", "a">>}

Tokens ==
    SeqsUpTo(Alphabet, MaxTokenLen)
    \cup {GITHUB_ACTIONS \o <<":">> \o c : c \in SeqsUpTo(Alphabet, 2)}

Slugs == (SeqsUpTo(SlugAlphabet, MaxSlugLen) \ {<< >>}) \cup {GITHUB_ACTIONS}

Apps == {None} \cup {Val([slug |-> slug]) : slug \in Slugs}

Contexts == SeqsUpTo(Alphabet, MaxCtxLen)

OriginOf(d) ==
    IF "requiredStatusChecks" \in DOMAIN d /\ is_set_and_valid(d["requiredStatusChecks"])
    THEN [kind |-> "tokens", v |-> d["requiredStatusChecks"].v]
    ELSE [kind |-> "none"]

\* every actor field in every state, with and without status checks
ToProviderActorInputs ==
    {MkDict(c) : c \in
        [pushRestrictions : ActorValues,
         reviewDismissalAllowances : ActorValues,
         bypassPullRequestAllowances : ActorValues,
         bypassForcePushAllowances : ActorValues,
         requiredStatusChecks : {ABSENT, Val(<< <<"a">>, ANY \o <<":", "a">> >>)}]}

\* a plain field in every state, beside push restrictions
ToProviderPlainInputs ==
    {MkDict(c) : c \in
        [lockBranch : {ABSENT, UNSET, None, Val(TRUE)},
         pushRestrictions : ActorValues,
         requiredStatusChecks : {ABSENT, UNSET, None, Val(<< <<"n", ":", "a">> >>)}]}

\* lists of status-check tokens, with repeated slugs
ToProviderListInputs ==
    {MkDict(c) : c \in
        [pushRestrictions : {ABSENT, Val(<<"team-a">>)},
         requiredStatusChecks : {Val(l) : l \in SeqsUpTo(SampleTokens, MaxChecks)}]}

\* one status-check token, drawn character by character
ToProviderTokenInputs ==
    {[requiredStatusChecks |-> Val(<<t>>)] : t \in Tokens}

InitToProvider ==
    /\ op = "to_provider"
    /\ pc = "start"
    /\ \/ data \in ToProviderActorInputs /\ provider = "github"
       \/ data \in ToProviderPlainInputs /\ provider \in {"github", "none"}
       \/ data \in ToProviderListInputs /\ provider = "github"
       \/ data \in ToProviderTokenInputs /\ provider = "github"
    /\ origin = OriginOf(data)
    /\ result = << >>
    /\ error = ""
    /\ mapping = << >>
    /\ app_slugs = {}
    /\ app_ids = << >>
    /\ transformed_checks = << >>
    /\ idx = 0
    /\ calls = << >>
    /\ self = << >>
    /\ findings = << >>

\* the raw record of a rule in the configuration
RawSamples ==
    {[Without(LiveSample, {"id"}) EXCEPT
         !["lockBranch"] = v,
         !["requiredStatusChecks"] = Val(<< <<"a">>, ANY \o <<":", "a">> >>)] :
       v \in {Val(TRUE), Val(FALSE), None}}

InitFromModel ==
    /\ op = "from_model"
    /\ pc = "start"
    /\ data \in {Without(d, m) : d \in RawSamples, m \in SubsetsUpTo(all_fields, MaxMissing)}
    /\ origin = [kind |-> "none"]
    /\ provider = "none"
    /\ result = << >>
    /\ error = ""
    /\ mapping = << >>
    /\ app_slugs = {}
    /\ app_ids = << >>
    /\ transformed_checks = << >>
    /\ idx = 0
    /\ calls = << >>
    /\ self = << >>
    /\ findings = << >>

\* provider records with one status check, of every app and context
LiveRecords ==
    {[LiveSample EXCEPT !["requiredStatusChecks"] =
         Val(<< [app |-> app, context |-> context] >>)] :
       app \in Apps, context \in Contexts}

InitFromProvider ==
    /\ op = "from_provider"
    /\ pc = "start"
    /\ \/ data \in {Without(LiveSample, m) : m \in SubsetsUpTo(all_fields, MaxMissing)}
       \/ data \in LiveRecords
    /\ origin = IF "requiredStatusChecks" \in DOMAIN data
                THEN [kind |-> "checks", v |-> data["requiredStatusChecks"].v]
                ELSE [kind |-> "none"]
    /\ provider = "none"
    /\ result = << >>
    /\ error = ""
    /\ mapping = << >>
    /\ app_slugs = {}
    /\ app_ids = << >>
    /\ transformed_checks = << >>
    /\ idx = 0
    /\ calls = << >>
    /\ self = << >>
    /\ findings = << >>

InitCodec == InitToProvider \/ InitFromModel \/ InitFromProvider

NextCodec ==
    \/ FromModel
    \/ FromProvider
    \/ ToProviderStart
    \/ PushRestrictions
    \/ ReviewDismissalAllowances
    \/ BypassPullRequestAllowances
    \/ BypassForcePushAllowances
    \/ RequiredStatusChecks
    \/ Collect
    \/ Resolve
    \/ Transform
    \/ StatusChecksDone
    \/ ToProviderReturn
    \/ Refetch
    \/ Reapply

SpecCodec == InitCodec /\ [][NextCodec]_vars

----------------------------------------------------------------------------
(* Claims about validate (checked under SpecValidate) *)

\* the number of findings of the finished call that name b as the dependent field
FindingsFor(b) ==
    Cardinality({i \in 1..Len(findings) :
                    findings[i].type = "ERROR" /\ findings[i].fieldB = b})

Validated == op = "validate" /\ pc = "done"

NonNegative(x) == x.tag = "val" /\ x.v >= 0

NonEmpty(x) == x.tag = "val" /\ Len(x.v) > 0

\* C1 as stated: with requiresApprovingReviews true, an unset
\* requiredApprovingReviewCount gives exactly one ERROR finding for invariant 1
\* and a non-negative count gives none.
C1_AsStated ==
    Validated /\ IsTrue(self.requiresApprovingReviews) =>
        /\ is_unset(self.requiredApprovingReviewCount)
              => FindingsFor("requiredApprovingReviewCount") = 1
        /\ NonNegative(self.requiredApprovingReviewCount)
              => FindingsFor("requiredApprovingReviewCount") = 0

\* C1 amended: with requiresApprovingReviews true, a requiredApprovingReviewCount
\* that is set but null or negative gives exactly one ERROR finding for
\* invariant 1; an unset count and a non-negative count give none.
C1_ApprovingReviewCount ==
    Validated /\ IsTrue(self.requiresApprovingReviews) =>
        /\ is_unset(self.requiredApprovingReviewCount)
              => FindingsFor("requiredApprovingReviewCount") = 0
        /\ NonNegative(self.requiredApprovingReviewCount)
              => FindingsFor("requiredApprovingReviewCount") = 0
        /\ (~is_unset(self.requiredApprovingReviewCount)
            /\ ~NonNegative(self.requiredApprovingReviewCount))
              => FindingsFor("requiredApprovingReviewCount") = 1

C1_Witness ==
    /\ Validated
    /\ IsTrue(self.requiresApprovingReviews)
    /\ is_unset(self.requiredApprovingReviewCount)
    /\ FindingsFor("requiredApprovingReviewCount") = 0

\* The invariants of the data model, each read from its own pair of fields.
\* Invariant 1 as the data model words it: the count must be set and non-negative.
Violates1_AsStated ==
    IsTrue(self.requiresApprovingReviews)
    /\ ~NonNegative(self.requiredApprovingReviewCount)

\* Invariant 1 as validate applies it: an unset count is not a violation.
Violates1 ==
    IsTrue(self.requiresApprovingReviews)
    /\ ~is_unset(self.requiredApprovingReviewCount)
    /\ ~NonNegative(self.requiredApprovingReviewCount)

Violates2 ==
    IsFalse(self.restrictsReviewDismissals) /\ NonEmpty(self.reviewDismissalAllowances)

Violates3 ==
    IsTrue(self.allowsForcePushes) /\ NonEmpty(self.bypassForcePushAllowances)

Violates4 ==
    IsFalse(self.requiresStatusChecks) /\ NonEmpty(self.requiredStatusChecks)

Count(b) == IF b THEN 1 ELSE 0

\* C3 as stated: the number of ERROR findings of one call equals the number of
\* the four invariants of the data model that the instance violates, and each
\* pair's finding is decided by that pair's fields alone.
C3_AsStated ==
    Validated =>
        /\ Len(findings) = Count(Violates1_AsStated) + Count(Violates2)
                           + Count(Violates3) + Count(Violates4)
        /\ FindingsFor("requiredApprovingReviewCount") = Count(Violates1_AsStated)
        /\ FindingsFor("reviewDismissalAllowances") = Count(Violates2)
        /\ FindingsFor("bypassForcePushAllowances") = Count(Violates3)
        /\ FindingsFor("requiredStatusChecks") = Count(Violates4)

\* C3 amended: validate never stops at the first finding; the number of ERROR
\* findings of one call equals the number of violated invariants, each pair's
\* finding being decided by that pair's fields alone, where invariant 1 counts
\* as violated only when the count is set (null or negative), not when unset.
C3_AllViolationsReported ==
    Validated =>
        /\ Len(findings) = Count(Violates1) + Count(Violates2)
                           + Count(Violates3) + Count(Violates4)
        /\ \A i \in 1..Len(findings) : findings[i].type = "ERROR"
        /\ FindingsFor("requiredApprovingReviewCount") = Count(Violates1)
        /\ FindingsFor("reviewDismissalAllowances") = Count(Violates2)
        /\ FindingsFor("bypassForcePushAllowances") = Count(Violates3)
        /\ FindingsFor("requiredStatusChecks") = Count(Violates4)

C3_Witness ==
    /\ Validated
    /\ Violates1 /\ Violates2 /\ Violates3 /\ Violates4
    /\ Len(findings) = 4

Skipped(x) == x.tag = "unset" \/ x.tag = "none"

\* C4 as stated: a dependent field that is unset or invalid (null) never causes
\* a finding for its pair, whatever the toggle of the pair.
C4_AsStated ==
    Validated =>
        /\ Skipped(self.requiredApprovingReviewCount)
              => FindingsFor("requiredApprovingReviewCount") = 0
        /\ Skipped(self.reviewDismissalAllowances)
              => FindingsFor("reviewDismissalAllowances") = 0
        /\ Skipped(self.bypassForcePushAllowances)
              => FindingsFor("bypassForcePushAllowances") = 0
        /\ Skipped(self.requiredStatusChecks)
              => FindingsFor("requiredStatusChecks") = 0

\* C4 amended: a dependent field that is unset never causes a finding for its
\* pair, and neither does a null list (reviewDismissalAllowances,
\* bypassForcePushAllowances, requiredStatusChecks), whatever the toggle; a null
\* requiredApprovingReviewCount is not skipped: with requiresApprovingReviews
\* true it gives the invariant-1 finding, otherwise none.
C4_UnsetOrInvalidSkipped ==
    Validated =>
        /\ is_unset(self.requiredApprovingReviewCount)
              => FindingsFor("requiredApprovingReviewCount") = 0
        /\ self.requiredApprovingReviewCount.tag = "none"
              => FindingsFor("requiredApprovingReviewCount")
                    = Count(IsTrue(self.requiresApprovingReviews))
        /\ Skipped(self.reviewDismissalAllowances)
              => FindingsFor("reviewDismissalAllowances") = 0
        /\ Skipped(self.bypassForcePushAllowances)
              => FindingsFor("bypassForcePushAllowances") = 0
        /\ Skipped(self.requiredStatusChecks)
              => FindingsFor("requiredStatusChecks") = 0

C4_Witness ==
    /\ Validated
    /\ IsFalse(self.requiresStatusChecks)
    /\ self.requiredStatusChecks.tag = "none"
    /\ IsTrue(self.requiresApprovingReviews)
    /\ self.requiredApprovingReviewCount.tag = "none"
    /\ Len(findings) = 1

\* C8: with restrictsReviewDismissals false and reviewDismissalAllowances a
\* set, valid, non-empty list, validate adds exactly one ERROR finding for the
\* pair; with the empty list, or restrictsReviewDismissals true or unset, none.
C8_ReviewDismissals ==
    Validated =>
        /\ (IsFalse(self.restrictsReviewDismissals)
            /\ NonEmpty(self.reviewDismissalAllowances))
              => FindingsFor("reviewDismissalAllowances") = 1
        /\ (\/ (self.reviewDismissalAllowances.tag = "val"
                /\ Len(self.reviewDismissalAllowances.v) = 0)
            \/ IsTrue(self.restrictsReviewDismissals)
            \/ is_unset(self.restrictsReviewDismissals))
              => FindingsFor("reviewDismissalAllowances") = 0

C8_Witness ==
    /\ Validated
    /\ IsFalse(self.restrictsReviewDismissals)
    /\ NonEmpty(self.reviewDismissalAllowances)
    /\ FindingsFor("reviewDismissalAllowances") = 1

----------------------------------------------------------------------------
(* Claims about the projections (checked under SpecCodec) *)

ToProviderDone == op = "to_provider" /\ pc = "done" /\ error = ""

ActorFields ==
    {"pushRestrictions", "reviewDismissalAllowances", "bypassPullRequestAllowances",
     "bypassForcePushAllowances"}

ActorIdKey(f) ==
    CASE f = "pushRestrictions" -> "pushActorIds"
      [] f = "reviewDismissalAllowances" -> "reviewDismissalActorIds"
      [] f = "bypassPullRequestAllowances" -> "bypassPullRequestActorIds"
      [] f = "bypassForcePushAllowances" -> "bypassForcePushActorIds"

AbsentOrUnset(f) == f \notin DOMAIN data \/ is_unset(data[f])

SetAndValid(f) == f \in DOMAIN data /\ is_set_and_valid(data[f])

\* C2: when an actor-reference field is absent from the input or present with
\* the unset value, _to_provider completes (the field's block raises nothing)
\* and the payload holds neither the field, nor its resolved-identifier key,
\* nor (for pushRestrictions) restrictsPushes; when the field is set and valid
\* the payload holds the resolved-identifier key and not the field.
C2_AsStated ==
    op = "to_provider" =>
        \A f \in ActorFields :
            /\ AbsentOrUnset(f) =>
                  /\ ~(pc = f /\ error # "")
                  /\ ToProviderDone =>
                        /\ f \notin DOMAIN result
                        /\ ActorIdKey(f) \notin DOMAIN result
                        /\ f = "pushRestrictions" => "restrictsPushes" \notin DOMAIN result
            /\ (SetAndValid(f) /\ ToProviderDone) =>
                  /\ ActorIdKey(f) \in DOMAIN result
                  /\ f \notin DOMAIN result

\* the app slug and the context a token denotes: what precedes and what
\* follows its first ':', or the default app and the whole token
ColonFreePrefix(t) ==
    LET n == CHOOSE k \in 0..Len(t) :
                 /\ \A j \in 1..k : t[j] # ":"
                 /\ (k < Len(t) => t[k + 1] = ":")
    IN  SubSeq(t, 1, n)

TokenSlug(t) == IF ColonFreePrefix(t) = t THEN GITHUB_ACTIONS ELSE ColonFreePrefix(t)

TokenContext(t) ==
    IF ColonFreePrefix(t) = t THEN t
    ELSE SubSeq(t, Len(ColonFreePrefix(t)) + 2, Len(t))

AppCalls == {i \in 1..Len(calls) : calls[i].fn = "get_app_ids"}

\* C6: for a set and valid requiredStatusChecks list _to_provider calls
\* get_app_ids at most once and, once the list has been walked, exactly once,
\* before any wire element is built, with the set of the distinct slugs of the
\* list other than "any" (a bare token counting as github-actions); the output
\* list has the length and order of the input, each element carrying the
\* resolved id of its own token's slug (or "any") and its token's context.
C6_BatchedResolution ==
    (op = "to_provider" /\ SetAndValid("requiredStatusChecks")) =>
        LET tokens == data["requiredStatusChecks"].v
            expected == {TokenSlug(tokens[i]) : i \in 1..Len(tokens)} \ {ANY}
        IN  /\ Cardinality(AppCalls) <= 1
            /\ AppCalls = {} => transformed_checks = << >>
            /\ (pc \in {"transform", "bend", "done"}
                \/ (pc = "collect" /\ error # ""))
                  => /\ Cardinality(AppCalls) = 1
                     /\ \A i \in AppCalls : calls[i].slugs = expected
            /\ ToProviderDone =>
                  LET wire == result["requiredStatusChecks"].v
                  IN  /\ Len(wire) = Len(tokens)
                      /\ \A i \in 1..Len(tokens) :
                            /\ wire[i].context = TokenContext(tokens[i])
                            /\ wire[i].appId =
                                  IF TokenSlug(tokens[i]) = ANY THEN ANY
                                  ELSE AppId(TokenSlug(tokens[i]))

C6_Witness ==
    /\ ToProviderDone
    /\ SetAndValid("requiredStatusChecks")
    /\ Len(data["requiredStatusChecks"].v) = 2
    /\ data["requiredStatusChecks"].v[1] = <<"n", ":", "a">>
    /\ data["requiredStatusChecks"].v[2] = <<"n", ":", "a">>
    /\ Cardinality(AppCalls) = 1
    /\ \A i \in AppCalls : calls[i].slugs = {<<"n">>}

\* C7: whenever pushRestrictions is set and valid in the input, the payload
\* contains restrictsPushes, true exactly when the identifier list the resolver
\* returned for pushRestrictions is non-empty (false for pushRestrictions = []);
\* otherwise the payload has no restrictsPushes: no other field injects a flag.
C7_RestrictsPushes ==
    ToProviderDone =>
        /\ "restrictsPushes" \in DOMAIN result <=> SetAndValid("pushRestrictions")
        /\ SetAndValid("pushRestrictions") =>
              /\ result["restrictsPushes"].tag = "val"
              /\ result["restrictsPushes"].v = (Len(result["pushActorIds"].v) > 0)
              /\ result["pushActorIds"].v = get_actor_ids(data["pushRestrictions"].v)
              /\ Len(data["pushRestrictions"].v) = 0
                    => result["restrictsPushes"].v = FALSE
        /\ DOMAIN result \subseteq
              provider_fields \cup {ActorIdKey(f) : f \in ActorFields}
              \cup {"restrictsPushes"}

C7_Witness ==
    /\ ToProviderDone
    /\ SetAndValid("pushRestrictions")
    /\ Len(data["pushRestrictions"].v) = 0
    /\ SetAndValid("reviewDismissalAllowances")
    /\ Len(data["reviewDismissalAllowances"].v) > 0
    /\ result["restrictsPushes"].v = FALSE

StartsWithAny(t) == Len(t) >= 4 /\ SubSeq(t, 1, 4) = ANY \o <<":">>

Bare(t) == \A i \in 1..Len(t) : t[i] # ":"

OtherSlug(t) == ~Bare(t) /\ ColonFreePrefix(t) \notin {ANY, GITHUB_ACTIONS}

RoundTripped == op = "from_provider" /\ pc = "done" /\ origin.kind = "tokens"

\* C5: a token written by _to_provider and read back by from_provider
\* (transform_app) is unchanged in the three cases: "any:ctx" read back with no
\* app, a bare "ctx" read back with app github-actions, and "s:ctx" for every
\* other slug s read back with an app of slug s.
C5_RoundTripElision ==
    RoundTripped =>
        LET decoded == result["requiredStatusChecks"].v
        IN  /\ Len(decoded) = Len(origin.v)
            /\ \A i \in 1..Len(origin.v) :
                  LET t == origin.v[i]
                  IN  (StartsWithAny(t) \/ Bare(t) \/ OtherSlug(t)) => decoded[i] = t

C5_Witness ==
    /\ RoundTripped
    /\ Len(origin.v) = 2
    /\ Bare(origin.v[1])
    /\ StartsWithAny(origin.v[2])
    /\ result["requiredStatusChecks"].v = origin.v

ReEncoded == ToProviderDone /\ origin.kind = "checks"

\* C10: a provider status check read by from_provider (transform_app) and
\* written back by _to_provider denotes the same app (appId "any" when the app
\* was absent, otherwise the resolved id of its slug) and the same context,
\* also when the context contains ':' and when the slug is the literal "any".
C10_AsStated ==
    ReEncoded =>
        LET wire == result["requiredStatusChecks"].v
        IN  /\ Len(wire) = Len(origin.v)
            /\ \A i \in 1..Len(origin.v) :
                  /\ wire[i].context = origin.v[i].context
                  /\ wire[i].appId = IF origin.v[i].app.tag = "none" THEN ANY
                                     ELSE AppId(origin.v[i].app.v.slug)

MissingKeys == all_fields \ DOMAIN data

\* C9: from_model on a raw record that lacks a declared field's key returns,
\* without raising, an instance whose field is the unset sentinel (not false,
\* not null); from_provider on a provider record that lacks a declared field's
\* key fails with a missing-field error and returns no instance.
C9_UnsetVersusMissing ==
    [][/\ (op = "from_model" /\ pc = "start") =>
            /\ pc' = "done"
            /\ error' = ""
            /\ DOMAIN result' = all_fields
            /\ \A f \in MissingKeys : result'[f].tag = "unset"
       /\ (op = "from_provider" /\ pc = "start" /\ error = "" /\ MissingKeys # {}) =>
            /\ error' = "MissingFieldError"
            /\ pc' # "done"
            /\ DOMAIN result' = {}]_vars

C9_Witness ==
    /\ op = "from_model"
    /\ pc = "done"
    /\ "lockBranch" \in MissingKeys
    /\ result["lockBranch"].tag = "unset"

====
